---- MODULE Spec2Model ----
(***************************************************************************)
(* Model of src/src/index.js (json-validator-BR): validate, validateData,  *)
(* the five primitive validators and setErrorMessage, over an explicit     *)
(* encoding of the JavaScript values the code handles.                     *)
(*                                                                         *)
(* Message texts are the source's texts with the accents dropped.          *)
(***************************************************************************)
EXTENDS Integers, Sequences, FiniteSets, TLC

VARIABLES
    customValidation,   \* the process-wide custom-rule registry (index.js:51)
    pc,                 \* "idle" | "returned"
    call,               \* the last call: function name and its arguments
    ret                 \* the completion of the last call

vars == <<customValidation, pc, call, ret>>

(***************************************************************************)
(* Bounds                                                                  *)
(***************************************************************************)
\* numbers used as values and as min/max bounds range over -1..MaxNum
MaxNum == 3
\* a record and a rule set hold at most MaxFields keys
MaxFields == 2

(***************************************************************************)
(* JavaScript values.  Every value is a record of one shape:               *)
(*   t      the kind of the value                                          *)
(*   n      the number (number, date), 1/0 (boolean)                       *)
(*   s      the text (string), the source (regexp)                         *)
(*   props  the own enumerable properties, in insertion order, as          *)
(*          [k |-> key, v |-> value]; the items of an array under the      *)
(*          keys "0", "1", ...                                             *)
(***************************************************************************)
Undef == [t |-> "undefined", n |-> 0, s |-> "", props |-> <<>>]
Null == [t |-> "null", n |-> 0, s |-> "", props |-> <<>>]
Num(n) == [t |-> "number", n |-> n, s |-> "", props |-> <<>>]
Str(s) == [t |-> "string", n |-> 0, s |-> s, props |-> <<>>]
Bool(b) == [t |-> "boolean", n |-> IF b THEN 1 ELSE 0, s |-> "", props |-> <<>>]
RegExp(src) == [t |-> "regexp", n |-> 0, s |-> src, props |-> <<>>]
DateObj(d) == [t |-> "date", n |-> d, s |-> "", props |-> <<>>]
Prop(k, v) == [k |-> k, v |-> v]
Obj(props) == [t |-> "object", n |-> 0, s |-> "", props |-> props]
Arr(items) ==
    [t |-> "array", n |-> 0, s |-> "",
     props |-> [i \in 1..Len(items) |-> Prop(ToString(i - 1), items[i])]]

\* a completion: the value returned, or a thrown TypeError
Normal(v) == [thrown |-> FALSE, val |-> v]
Throw == [thrown |-> TRUE, val |-> Str("TypeError")]

\* typeof
TypeOf(v) ==
    CASE v.t = "undefined" -> "undefined"
      [] v.t = "number" -> "number"
      [] v.t = "string" -> "string"
      [] v.t = "boolean" -> "boolean"
      [] OTHER -> "object"

IsArray(v) == v.t = "array"

\* ToBoolean (the model has no NaN value)
Truthy(v) ==
    CASE v.t \in {"undefined", "null"} -> FALSE
      [] v.t = "number" -> v.n # 0
      [] v.t = "string" -> v.s # ""
      [] v.t = "boolean" -> v.n = 1
      [] OTHER -> TRUE

\* the own property keys of a value, in order
Keys(v) == [i \in 1..Len(v.props) |-> v.props[i].k]

HasOwn(v, k) == \E i \in 1..Len(v.props) : v.props[i].k = k

\* o[k] for a value that is not null or undefined
Get(v, k) ==
    IF HasOwn(v, k)
    THEN v.props[CHOOSE i \in 1..Len(v.props) : v.props[i].k = k].v
    ELSE IF k = "length" /\ v.t = "string" THEN Num(Len(v.s))
    ELSE IF k = "length" /\ v.t = "array" THEN Num(Len(v.props))
    ELSE Undef

\* null and undefined have no properties: reading one throws
Nullish(v) == v.t \in {"undefined", "null"}

\* o[k] = x : an existing key keeps its place, a new key is appended
Put(v, k, x) ==
    IF HasOwn(v, k)
    THEN [v EXCEPT !.props =
             [i \in 1..Len(v.props) |->
                 IF v.props[i].k = k THEN Prop(k, x) ELSE v.props[i]]]
    ELSE [v EXCEPT !.props = Append(v.props, Prop(k, x))]

\* === on the values of the model: primitives by value, objects by identity
\* (two object values of the model are never the same object)
StrictEq(x, y) ==
    /\ x.t = y.t
    /\ x.t \in {"undefined", "null", "number", "string", "boolean"}
    /\ x.n = y.n
    /\ x.s = y.s

RECURSIVE JoinStr(_, _)
JoinStr(strs, sep) ==
    IF Len(strs) = 0 THEN ""
    ELSE IF Len(strs) = 1 THEN strs[1]
    ELSE strs[1] \o sep \o JoinStr(Tail(strs), sep)

\* String(v), as a template literal and String.prototype.replace apply it
RECURSIVE JsToString(_)
JsToString(v) ==
    CASE v.t = "undefined" -> "undefined"
      [] v.t = "null" -> "null"
      [] v.t = "number" -> ToString(v.n)
      [] v.t = "string" -> v.s
      [] v.t = "boolean" -> IF v.n = 1 THEN "true" ELSE "false"
      [] v.t = "regexp" -> "/" \o v.s \o "/"
      [] v.t = "date" -> "Date(" \o ToString(v.n) \o ")"
      [] v.t = "array" ->
            JoinStr([i \in 1..Len(v.props) |->
                        IF Nullish(v.props[i].v) THEN ""
                        ELSE JsToString(v.props[i].v)], ",")
      [] OTHER -> "[object Object]"

\* ToNumber, <<n>> or <<>> for NaN.  The strings of the model other than ""
\* are not numerals.
ToNumber(v) ==
    CASE v.t = "number" -> <<v.n>>
      [] v.t = "boolean" -> <<v.n>>
      [] v.t = "null" -> <<0>>
      [] v.t = "date" -> <<v.n>>
      [] v.t = "string" /\ v.s = "" -> <<0>>
      [] OTHER -> <<>>

\* x < y and x > y where at most one operand is a string: both operands are
\* converted to numbers and a NaN makes the comparison false
JsLt(x, y) ==
    /\ ToNumber(x) # <<>>
    /\ ToNumber(y) # <<>>
    /\ ToNumber(x)[1] < ToNumber(y)[1]

JsGt(x, y) == JsLt(y, x)

\* Date.parse on the strings of the model, in days since 1970-01-01; <<>> is
\* NaN
DateParse(s) ==
    CASE s = "2020-01-01" -> <<18262>>
      [] s = "2020-06-15" -> <<18428>>
      [] s = "2021-01-01" -> <<18628>>
      [] OTHER -> <<>>

\* String.prototype.toUpperCase / toLowerCase on the strings of the model
ToUpperCase(s) ==
    CASE s = "array" -> "ARRAY"
      [] s = "Array" -> "ARRAY"
      [] s = "date" -> "DATE"
      [] s = "string" -> "STRING"
      [] s = "String" -> "STRING"
      [] s = "number" -> "NUMBER"
      [] s = "boolean" -> "BOOLEAN"
      [] s = "object" -> "OBJECT"
      [] s = "undefined" -> "UNDEFINED"
      [] OTHER -> s

ToLowerCase(s) ==
    CASE s = "dataType" -> "datatype"
      [] s = "DataType" -> "datatype"
      [] s = "List" -> "list"
      [] s = "Range" -> "range"
      [] OTHER -> s

\* RegExp matching on the patterns and strings of the model
RegexTest(src, s) ==
    CASE src = "^[a-z]+$" -> s \in {"ab", "abc", "x"}
      [] src = "^\\d{4}-" -> s \in {"2020-01-01", "2020-06-15", "2021-01-01"}
      [] OTHER -> FALSE

\* the outcome objects the validators build
Outcome(ok, message) ==
    Obj(<<Prop("validate", Bool(ok)), Prop("message", Str(message))>>)
OutcomeNoMessage == Obj(<<Prop("validate", Bool(FALSE))>>)
OutcomeMsg(message) ==
    Obj(<<Prop("validate", Bool(FALSE)), Prop("msg", Str(message))>>)
OutcomeOk == Outcome(TRUE, "Ok")

(***************************************************************************)
(* Primitive validators                                                    *)
(***************************************************************************)
valDataType(rulesConfig, field, value) ==
    IF rulesConfig.t # "string" THEN Throw      \* no toUpperCase to call
    ELSE IF ToUpperCase(rulesConfig.s) = "ARRAY" THEN
        IF ~IsArray(value)
        THEN Normal(Outcome(FALSE, "O valor de '" \o field \o "' nao e um Array"))
        ELSE Normal(Undef)                      \* falls off the end
    ELSE IF ToUpperCase(rulesConfig.s) = "DATE" THEN
        IF value.t # "date"
           /\ (TypeOf(value) # "string" \/ DateParse(value.s) = <<>>)
        THEN Normal(Outcome(FALSE,
                "O valor de '" \o field \o "' nao corresponde a uma data valida"))
        ELSE Normal(OutcomeOk)
    ELSE IF ToUpperCase(TypeOf(value)) # ToUpperCase(rulesConfig.s)
    THEN Normal(Outcome(FALSE,
            "O valor de '" \o field \o "' nao corresponde ao tipo de dado exigido"))
    ELSE Normal(OutcomeOk)

valList(rulesConfig, field, value) ==
    IF ~IsArray(rulesConfig) THEN Normal(OutcomeNoMessage)
    ELSE IF ~\E i \in 1..Len(rulesConfig.props) :
                StrictEq(value, rulesConfig.props[i].v)
    THEN Normal(OutcomeMsg("O valor '" \o JsToString(value) \o "' em '" \o field
                    \o "' nao esta presente na lista de valores permitidos"))
    ELSE Normal(OutcomeOk)

valLength(rulesConfig, field, value) ==
    IF Nullish(rulesConfig) THEN Throw          \* rulesConfig.min
    ELSE IF JsGt(Get(rulesConfig, "min"), Num(0)) /\ Nullish(value) THEN Throw
    ELSE IF /\ JsGt(Get(rulesConfig, "min"), Num(0))
            /\ JsLt(Get(value, "length"), Get(rulesConfig, "min"))
    THEN Normal(Outcome(FALSE, "O valor de '" \o field
            \o "' nao possui a quantidade minima de caracteres exigida"))
    ELSE IF JsGt(Get(rulesConfig, "max"), Num(0)) /\ Nullish(value) THEN Throw
    ELSE IF /\ JsGt(Get(rulesConfig, "max"), Num(0))
            /\ JsGt(Get(value, "length"), Get(rulesConfig, "max"))
    THEN Normal(Outcome(FALSE, "O valor de '" \o field
            \o "' possui quantidade de caracteres/itens maior que o maximo permitido"))
    ELSE Normal(OutcomeOk)

\* Date.parse(x) of a bound: the bound is converted to a string first
DateParseValue(x) == DateParse(JsToString(x))

\* the bounds and the datum valRange compares (index.js:236-276), or the
\* outcome it returns early; Undef where the code leaves the local unset
RangeOperands(rulesConfig, value) ==
    LET min == Get(rulesConfig, "min")
        max == Get(rulesConfig, "max")
        AsNum(d) == Num(d[1])
    IN  IF TypeOf(value) = "string" THEN
            IF DateParse(value.s) = <<>> THEN [early |-> TRUE]
            ELSE IF Truthy(min) /\ DateParseValue(min) = <<>> THEN [early |-> TRUE]
            ELSE IF Truthy(max) /\ DateParseValue(max) = <<>> THEN [early |-> TRUE]
            ELSE [early |-> FALSE,
                  rangeMin |-> IF Truthy(min) THEN AsNum(DateParseValue(min)) ELSE Undef,
                  rangeMax |-> IF Truthy(max) THEN AsNum(DateParseValue(max)) ELSE Undef,
                  data |-> AsNum(DateParse(value.s))]
        ELSE IF TypeOf(value) = "number" THEN
            \* typeof !rulesConfig.max is always "boolean", so only min decides
            IF TypeOf(min) # "number" /\ TypeOf(Bool(~Truthy(max))) # "number"
            THEN [early |-> TRUE]
            ELSE [early |-> FALSE, rangeMin |-> min, rangeMax |-> max, data |-> value]
        ELSE [early |-> FALSE, rangeMin |-> Undef, rangeMax |-> Undef, data |-> Undef]

\* valRange without lines 278-282: the bounds are compared as configured
RangeSwapOmitted(ops) == ops

\* index.js:278-282
RangeSwap(ops) ==
    IF JsGt(ops.rangeMin, ops.rangeMax)
    THEN [ops EXCEPT !.rangeMin = ops.rangeMax, !.rangeMax = ops.rangeMin]
    ELSE ops

\* index.js:284-292: the comparisons, on the operands as lines 278-282 leave
\* them
RangeCompare(rulesConfig, field, sw) ==
    IF JsLt(sw.data, sw.rangeMin)
    THEN Normal(Outcome(FALSE, "O valor de " \o field
            \o " necessita ser maior ou igual a "
            \o JsToString(Get(rulesConfig, "min"))))
    ELSE IF JsGt(sw.data, sw.rangeMax)
    THEN Normal(Outcome(FALSE, "O valor de " \o field
            \o " necessita ser menor ou igual a "
            \o JsToString(Get(rulesConfig, "max"))))
    ELSE Normal(OutcomeOk)

\* index.js:236-292, ops being the operands or the early return
RangeResolved(rulesConfig, field, ops) ==
    IF ops.early THEN Normal(OutcomeNoMessage)
    ELSE RangeCompare(rulesConfig, field, RangeSwap(ops))

valRange(rulesConfig, field, value) ==
    IF TypeOf(rulesConfig) # "object" THEN Normal(OutcomeNoMessage)
    ELSE IF Nullish(rulesConfig) THEN Throw     \* typeof null is "object"
    ELSE IF ~Truthy(Get(rulesConfig, "min")) /\ ~Truthy(Get(rulesConfig, "max"))
    THEN Normal(OutcomeNoMessage)
    ELSE RangeResolved(rulesConfig, field, RangeOperands(rulesConfig, value))

\* String.prototype.match(x): a RegExp is used as it is, undefined matches
\* every string, anything else is compiled from its string form
RegexMatches(rulesConfig, s) ==
    IF rulesConfig.t = "undefined" THEN TRUE
    ELSE IF rulesConfig.t = "regexp" THEN RegexTest(rulesConfig.s, s)
    ELSE RegexTest(JsToString(rulesConfig), s)

valRegex(rulesConfig, field, value) ==
    IF TypeOf(value) # "string" THEN Throw      \* value.match is not callable
    ELSE IF ~RegexMatches(rulesConfig, value.s)
    THEN Normal(Outcome(FALSE, "O valor do campo '" \o field
            \o "' nao corresponde ao formato de dado exigido"))
    ELSE Normal(OutcomeOk)

(***************************************************************************)
(* setErrorMessage                                                         *)
(***************************************************************************)
\* the message templates of the model, cut at their placeholders
Tokens(s) ==
    CASE s = "{field} invalido: {value}" -> <<"{field}", " invalido: ", "{value}">>
      [] s = "{field} deve ser {dataType}" -> <<"{field}", " deve ser ", "{dataType}">>
      [] s = "{field} fora de {list}" -> <<"{field}", " fora de ", "{list}">>
      [] s = "{field} entre {range[min]} e {range[max]}" ->
            <<"{field}", " entre ", "{range[min]}", " e ", "{range[max]}">>
      [] s = "informe {field}" -> <<"informe ", "{field}">>
      [] OTHER -> <<s>>

\* msg.replace(/ph/g, text)
ReplaceAll(toks, ph, text) ==
    [i \in 1..Len(toks) |-> IF toks[i] = ph THEN text ELSE toks[i]]

\* msg.replace("ph", text): the first occurrence only
ReplaceFirst(toks, ph, text) ==
    [i \in 1..Len(toks) |->
        IF toks[i] = ph /\ \A j \in 1..(i - 1) : toks[j] # ph THEN text ELSE toks[i]]

\* config.validationParamName arrives as the member name, "undefined" when the
\* caller passes none; the result is the completion of the call
setErrorMessage(field, value, validationParamName, validationParamValue, message) ==
    LET m1 == ReplaceAll(Tokens(message), "{field}", field)
        m2 == ReplaceAll(m1, "{value}", JsToString(value))
        p == validationParamValue
    IN  IF validationParamName = "list" THEN
            IF Nullish(p) THEN Throw
            ELSE Normal(Str(JoinStr(ReplaceFirst(m2, "{list}", JsToString(p)), "")))
        ELSE IF validationParamName = "range" THEN
            IF Nullish(p) THEN Throw
            ELSE Normal(Str(JoinStr(
                    ReplaceFirst(ReplaceFirst(m2, "{range[min]}", JsToString(Get(p, "min"))),
                                 "{range[max]}", JsToString(Get(p, "max"))), "")))
        ELSE IF validationParamName = "len" THEN
            IF Nullish(p) THEN Throw
            ELSE Normal(Str(JoinStr(
                    ReplaceFirst(ReplaceFirst(m2, "{len[min]}", JsToString(Get(p, "min"))),
                                 "{len[max]}", JsToString(Get(p, "max"))), "")))
        ELSE Normal(Str(JoinStr(
                ReplaceFirst(m2, "{" \o validationParamName \o "}", JsToString(p)), "")))

(***************************************************************************)
(* validateData                                                            *)
(***************************************************************************)
\* the keys of rulesFunctions (index.js:102-108)
rulesFunctions == {"list", "datatype", "len", "range", "regex"}

Dispatch(name, rulesConfig, field, value) ==
    CASE name = "list" -> valList(rulesConfig, field, value)
      [] name = "datatype" -> valDataType(rulesConfig, field, value)
      [] name = "len" -> valLength(rulesConfig, field, value)
      [] name = "range" -> valRange(rulesConfig, field, value)
      [] name = "regex" -> valRegex(rulesConfig, field, value)

\* result.message = setErrorMessage(...), m being the completion of the call
SetMessage(result, m) ==
    IF m.thrown THEN Throw ELSE Normal(Put(result, "message", m.val))

\* index.js:116-125: the failing result with its message overridden, as a
\* completion
OverrideMessage(rulesObj, r, key, value, result) ==
    LET message == Get(rulesObj, "message")
    IN  IF TypeOf(message) # "object" THEN Normal(result)
        ELSE IF Nullish(message) THEN Throw
        ELSE LET tpl == IF TypeOf(Get(message, r)) = "string" THEN Get(message, r)
                        ELSE IF TypeOf(Get(message, "custom")) = "string"
                        THEN Get(message, "custom")
                        ELSE Undef
             IN  IF tpl = Undef THEN Normal(result)
                 ELSE SetMessage(result,
                                 setErrorMessage(key, value, r, Get(rulesObj, r), tpl.s))

\* index.js:110-128: the loop over the members of rulesObj from member i on,
\* `result` being the variable the loop reads and writes.  returned tells
\* whether validateData returns (or throws) inside the loop; otherwise comp
\* carries the value `result` holds after the loop.
RECURSIVE MemberLoop(_, _, _, _, _)
\* index.js:114-126 for member i, c being the completion that line 112 left
\* in `result` (or the stale `result` itself)
MemberTest(rulesObj, key, value, i, c) ==
    IF c.thrown THEN [returned |-> TRUE, comp |-> Throw]
    ELSE IF Nullish(c.val) THEN [returned |-> TRUE, comp |-> Throw]
    ELSE IF ~Truthy(Get(c.val, "validate"))
    THEN [returned |-> TRUE,
          comp |-> OverrideMessage(rulesObj, rulesObj.props[i].k, key, value, c.val)]
    ELSE MemberLoop(rulesObj, key, value, i + 1, c.val)

MemberLoop(rulesObj, key, value, i, result) ==
    IF i > Len(rulesObj.props) THEN [returned |-> FALSE, comp |-> Normal(result)]
    ELSE MemberTest(rulesObj, key, value, i,
            IF ToLowerCase(rulesObj.props[i].k) \in rulesFunctions
            THEN Dispatch(ToLowerCase(rulesObj.props[i].k), rulesObj.props[i].v, key, value)
            ELSE Normal(result))

\* Object.assign(target, source)
RECURSIVE ObjectAssign(_, _)
ObjectAssign(target, source) ==
    IF Len(source.props) = 0 THEN target
    ELSE ObjectAssign(Put(target, source.props[1].k, source.props[1].v),
                      [source EXCEPT !.props = Tail(source.props)])

\* rulesArray.splice(rulesArray.findIndex(v => v === key), 1): an index of -1
\* counts from the end
Splice(rulesArray, key) ==
    LET found == {i \in 1..Len(rulesArray) : rulesArray[i] = key}
        at == IF found = {} THEN Len(rulesArray)
              ELSE CHOOSE i \in found : \A j \in found : i <= j
    IN  [i \in 1..(IF Len(rulesArray) = 0 THEN 0 ELSE Len(rulesArray) - 1) |->
            IF i < at THEN rulesArray[i] ELSE rulesArray[i + 1]]

\* the allowlist check with its length test off by one
NotAllowedLongListOnly(allowedFields, key) ==
    /\ IsArray(allowedFields)
    /\ Len(allowedFields.props) > 1
    /\ ~\E i \in 1..Len(allowedFields.props) :
            StrictEq(allowedFields.props[i].v, Str(key))

\* index.js:72-84
NotAllowed(allowedFields, key) ==
    /\ IsArray(allowedFields)
    /\ Len(allowedFields.props) > 0
    /\ ~\E i \in 1..Len(allowedFields.props) :
            StrictEq(allowedFields.props[i].v, Str(key))

AllowlistFailure(key) ==
    Outcome(FALSE, "'" \o key \o "' nao e um campo valido para requisicao efetuada")

\* index.js:137-152: the forEach over the remaining rule-set keys; the callback's
\* `return false` ends one call of the callback, not the traversal.  The
\* completion carries the message left in msg.
RECURSIVE RequiredPass(_, _, _, _)
RequiredPass(rules, rulesArray, i, msg) ==
    IF i > Len(rulesArray) THEN Normal(Str(msg))
    ELSE LET item == rulesArray[i]
             rule == Get(rules, item)
         IN  IF Nullish(rule) THEN Throw
             ELSE IF ~Truthy(Get(rule, "required"))
             THEN RequiredPass(rules, rulesArray, i + 1, msg)
             ELSE LET message == Get(rule, "message")
                      tpl == IF TypeOf(message) # "object" \/ Nullish(message) THEN Undef
                             ELSE IF TypeOf(Get(message, "required")) = "string"
                             THEN Get(message, "required")
                             ELSE IF TypeOf(Get(message, "custom")) = "string"
                             THEN Get(message, "custom")
                             ELSE Undef
                      m == IF tpl = Undef
                           THEN Normal(Str("E obrigatorio atribuir valor ao campo '"
                                            \o item \o "'"))
                           ELSE setErrorMessage(item, Undef, "undefined", Undef, tpl.s)
                  IN  IF TypeOf(message) = "object" /\ Nullish(message) THEN Throw
                      ELSE IF m.thrown THEN Throw
                      ELSE RequiredPass(rules, rulesArray, i + 1, m.val.s)

\* index.js:137 and 155: validated is what forEach returns, msg what the
\* callbacks left; m is the completion of the traversal
ForEachOutcome(m) ==
    IF m.thrown THEN Throw
    ELSE Normal(Obj(<<Prop("validate", Undef), Prop("message", m.val)>>))

\* index.js:136-155
FinalOutcome(rules, rulesArray) ==
    IF Len(rulesArray) > 0
    THEN ForEachOutcome(RequiredPass(rules, rulesArray, 1, "Ok"))
    ELSE Normal(Obj(<<Prop("validate", Bool(TRUE)), Prop("message", Str("Ok"))>>))

\* Object.getOwnPropertyNames(rules) for a value that is not null
OwnPropertyNames(rules) ==
    IF IsArray(rules) THEN Append(Keys(rules), "length") ELSE Keys(rules)

\* index.js:70-134: the loop over the keys of data from key i on.  registry is
\* the custom-rule registry as the loop has left it so far; the result is the
\* completion of validateData, the registry it leaves behind, and whether the
\* function returned (or threw) inside this loop.
RECURSIVE FieldLoop(_, _, _, _, _, _, _)
\* index.js:125 and 130-134 for field i, m being the outcome of the member
\* loop and registry the registry after line 99
AfterMembers(data, rules, allowedFields, i, rulesArray, registry, m) ==
    IF m.returned
    THEN [comp |-> m.comp, registry |-> registry, inLoop |-> TRUE]
    ELSE FieldLoop(data, rules, allowedFields, i + 1,
                   Splice(rulesArray, data.props[i].k), m.comp.val, registry)

\* index.js:92-128 for field i with the rule own, bundle being
\* customValidation[own.custom]
FieldRule(data, rules, allowedFields, i, rulesArray, result, registry, own, bundle) ==
    IF ~Truthy(Get(own, "custom"))
    THEN AfterMembers(data, rules, allowedFields, i, rulesArray, registry,
            MemberLoop(own, data.props[i].k, data.props[i].v, 1, result))
    ELSE IF TypeOf(bundle) # "object"
    THEN [comp |-> Normal(OutcomeNoMessage), registry |-> registry, inLoop |-> TRUE]
    ELSE IF Nullish(bundle)
    THEN [comp |-> Throw, registry |-> registry, inLoop |-> TRUE]
    ELSE AfterMembers(data, rules, allowedFields, i, rulesArray,
            Put(registry, JsToString(Get(own, "custom")), ObjectAssign(bundle, own)),
            MemberLoop(ObjectAssign(bundle, own), data.props[i].k, data.props[i].v,
                       1, result))

FieldLoop(data, rules, allowedFields, i, rulesArray, result, registry) ==
    IF i > Len(data.props)
    THEN [comp |-> FinalOutcome(rules, rulesArray), registry |-> registry,
          inLoop |-> FALSE]
    ELSE IF NotAllowed(allowedFields, data.props[i].k)
    THEN [comp |-> Normal(AllowlistFailure(data.props[i].k)), registry |-> registry,
          inLoop |-> TRUE]
    ELSE IF ~Truthy(Get(rules, data.props[i].k))
    THEN FieldLoop(data, rules, allowedFields, i + 1, rulesArray, result, registry)
    ELSE FieldRule(data, rules, allowedFields, i, rulesArray, result, registry,
                   Get(rules, data.props[i].k),
                   Get(registry, JsToString(Get(Get(rules, data.props[i].k), "custom"))))

validateData(data, rules, allowedFields, registry) ==
    IF TypeOf(rules) # "object" \/ TypeOf(data) # "object"
    THEN [comp |-> Normal(Bool(FALSE)), registry |-> registry, inLoop |-> FALSE]
    ELSE IF Nullish(rules)                          \* getOwnPropertyNames(null)
    THEN [comp |-> Throw, registry |-> registry, inLoop |-> FALSE]
    ELSE FieldLoop(data, rules, allowedFields, 1, OwnPropertyNames(rules), Undef, registry)

\* index.js:42-47: the catch clause, r being what the try block produced
Catch(r) ==
    IF r.comp.thrown
    THEN [comp |-> Normal(Outcome(FALSE,
            "Ocorreu um erro desconhecido na tentativa de validacao dos dados.")),
          registry |-> r.registry, inLoop |-> r.inLoop]
    ELSE r

\* index.js:35-49
validate(data, rules, allowedFields, registry) ==
    Catch(validateData(data, rules, allowedFields, registry))

(***************************************************************************)
(* Inputs                                                                  *)
(***************************************************************************)
\* the custom-rule registry as ../custom.validation exports it at startup
LoadedRegistry ==
    Obj(<<Prop("cpf", Obj(<<Prop("dataType", Str("string")),
                            Prop("len", Obj(<<Prop("min", Num(2))>>))>>))>>)

FieldNames == <<"a", "b", "c", "d">>

\* a key of a scenario has a value in the record, a rule in the rule set, or
\* both; Absent marks the one it lacks
Absent == [t |-> "absent", n |-> 0, s |-> "", props |-> <<>>]

SlotValues == {Num(1), Str("ab")}

SlotRules ==
    { Obj(<<Prop("dataType", Str("string"))>>),
      Obj(<<Prop("required", Bool(TRUE))>>),
      Obj(<<Prop("required", Bool(TRUE)),
            Prop("dataType", Str("number")),
            Prop("message", Obj(<<Prop("required", Str("informe {field}")),
                                  Prop("dataType", Str("{field} deve ser {dataType}"))>>))>>),
      Obj(<<Prop("dataType", Str("number")), Prop("note", Str("x"))>>),
      Obj(<<Prop("list", Arr(<<Num(1)>>))>>),
      Obj(<<Prop("range", Obj(<<Prop("max", Num(2))>>))>>),
      Obj(<<Prop("custom", Str("cpf"))>>),
      Obj(<<Prop("custom", Str("cpf")), Prop("dataType", Str("number"))>>) }

Slots ==
    { sl \in [val : SlotValues \cup {Absent}, rule : SlotRules \cup {Absent}] :
        sl.val # Absent \/ sl.rule # Absent }

Scenarios == UNION { [1..n -> Slots] : n \in 0..MaxFields }

RECURSIVE Reverse(_)
Reverse(seq) == IF Len(seq) = 0 THEN <<>> ELSE Append(Reverse(Tail(seq)), seq[1])

\* the properties a scenario gives the record (which = "val") or the rule set
\* (which = "rule"), in the order of its keys
RECURSIVE ScenarioProps(_, _, _)
ScenarioProps(sc, which, i) ==
    IF i > Len(sc) THEN <<>>
    ELSE LET x == IF which = "val" THEN sc[i].val ELSE sc[i].rule
         IN  IF x = Absent THEN ScenarioProps(sc, which, i + 1)
             ELSE <<Prop(FieldNames[i], x)>> \o ScenarioProps(sc, which, i + 1)

DataOf(sc) == Obj(ScenarioProps(sc, "val", 1))
RulesOf(sc, reversed) ==
    Obj(IF reversed THEN Reverse(ScenarioProps(sc, "rule", 1))
        ELSE ScenarioProps(sc, "rule", 1))

AllowedChoices == {Undef, Arr(<<Str("a")>>), Arr(<<Str("b")>>)}

\* arguments of the wrong kind, and rule sets with a malformed rule
OddArgs ==
    { Undef, Null, Str("ab"), Num(1), Obj(<<>>), Arr(<<>>),
      Obj(<<Prop("a", Num(1))>>),
      Obj(<<Prop("a", Null)>>),
      Obj(<<Prop("a", Obj(<<Prop("custom", Str("nope"))>>))>>),
      Obj(<<Prop("a", Obj(<<Prop("required", Bool(TRUE)), Prop("message", Null)>>))>>) }

Numbers == {Num(n) : n \in -1..MaxNum}

PrimValues ==
    Numbers \cup
    { Str("ab"), Str(""), Str("2020-06-15"), Bool(TRUE), Null, Undef,
      Arr(<<Num(1), Num(2)>>), Obj(<<>>), DateObj(18428) }

DataTypeConfigs ==
    {Str("array"), Str("date"), Str("String"), Str("number"), Str("boolean"),
     Str("object"), Undef}

ListConfigs == {Arr(<<Num(1), Str("ab")>>), Arr(<<>>), Str("ab"), Undef}

LenConfigs ==
    { Obj(<<Prop("min", Num(2))>>), Obj(<<Prop("max", Num(1))>>),
      Obj(<<Prop("min", Num(1)), Prop("max", Num(2))>>), Obj(<<>>), Undef }

RangeBounds == Numbers \cup {Absent, Str("2020-01-01"), Str("2021-01-01"), Str("ab")}

RangeObj(min, max) ==
    Obj((IF min = Absent THEN <<>> ELSE <<Prop("min", min)>>)
        \o (IF max = Absent THEN <<>> ELSE <<Prop("max", max)>>))

RangeConfigs ==
    {RangeObj(min, max) : min \in RangeBounds, max \in RangeBounds}
    \cup {Num(1), Null, Undef}

RegexConfigs == {RegExp("^[a-z]+$"), RegExp("^\\d{4}-"), Undef}

\* Date.parse of a number's string form takes the engine's legacy fallback,
\* which the model's DateParse does not cover: a date string is not checked
\* against a numeric bound
LegacyDateParse(rulesConfig, value) ==
    /\ TypeOf(value) = "string"
    /\ DateParse(value.s) # <<>>
    /\ ~Nullish(rulesConfig)
    /\ \/ Get(rulesConfig, "min").t = "number" /\ Get(rulesConfig, "min").n # 0
       \/ Get(rulesConfig, "max").t = "number" /\ Get(rulesConfig, "max").n # 0

(***************************************************************************)
(* The state machine: a caller invokes one function at a time              *)
(***************************************************************************)
NoCall == [fn |-> "none", args |-> <<>>, registry |-> Undef]

Init ==
    /\ customValidation = LoadedRegistry
    /\ pc = "idle"
    /\ call = NoCall
    /\ ret = Normal(Undef)

\* the caller receives the completion; the registry stays as the call left it
Returns(r) ==
    /\ ret' = r.comp
    /\ customValidation' = r.registry

\* validate(data, rules, allowedFields)
Validate(data, rules, allowedFields) ==
    /\ pc = "idle"
    /\ Returns(validate(data, rules, allowedFields, customValidation))
    /\ call' = [fn |-> "validate", args |-> <<data, rules, allowedFields>>,
                registry |-> customValidation]
    /\ pc' = "returned"

\* a direct call of one primitive validator
CallPrimitive(fn, rulesConfig, value) ==
    /\ pc = "idle"
    /\ ret' = (CASE fn = "valDataType" -> valDataType(rulesConfig, "a", value)
                 [] fn = "valList" -> valList(rulesConfig, "a", value)
                 [] fn = "valLength" -> valLength(rulesConfig, "a", value)
                 [] fn = "valRange" -> valRange(rulesConfig, "a", value)
                 [] fn = "valRegex" -> valRegex(rulesConfig, "a", value))
    /\ call' = [fn |-> fn, args |-> <<rulesConfig, Str("a"), value>>,
                registry |-> customValidation]
    /\ pc' = "returned"
    /\ UNCHANGED customValidation

ValidateRecord ==
    /\ pc = "idle"
    /\ \E sc \in Scenarios, reversed \in BOOLEAN, allowedFields \in AllowedChoices :
        Validate(DataOf(sc), RulesOf(sc, reversed), allowedFields)

ValidateOddArgs ==
    /\ pc = "idle"
    /\ \E data \in OddArgs, rules \in OddArgs :
        Validate(data, rules, Undef)

CallValDataType ==
    /\ pc = "idle"
    /\ \E c \in DataTypeConfigs, v \in PrimValues : CallPrimitive("valDataType", c, v)

CallValList ==
    /\ pc = "idle"
    /\ \E c \in ListConfigs, v \in PrimValues : CallPrimitive("valList", c, v)

CallValLength ==
    /\ pc = "idle"
    /\ \E c \in LenConfigs, v \in PrimValues : CallPrimitive("valLength", c, v)

CallValRange ==
    /\ pc = "idle"
    /\ \E c \in RangeConfigs, v \in PrimValues :
        /\ ~LegacyDateParse(c, v)
        /\ CallPrimitive("valRange", c, v)

CallValRegex ==
    /\ pc = "idle"
    /\ \E c \in RegexConfigs, v \in PrimValues : CallPrimitive("valRegex", c, v)

\* the caller takes the outcome; the next call starts from the registry as
\* the last one left it
Return ==
    /\ pc = "returned"
    /\ pc' = "idle"
    /\ call' = NoCall
    /\ ret' = Normal(Undef)
    /\ UNCHANGED customValidation

Next ==
    \/ ValidateRecord
    \/ ValidateOddArgs
    \/ CallValDataType
    \/ CallValList
    \/ CallValLength
    \/ CallValRange
    \/ CallValRegex
    \/ Return

Spec == Init /\ [][Next]_vars

(***************************************************************************)
(* Properties                                                              *)
(***************************************************************************)
ValidateReturned == pc = "returned" /\ call.fn = "validate"
PrimitiveReturned(fn) == pc = "returned" /\ call.fn = fn

\* the arguments of the last validate call
ArgData == call.args[1]
ArgRules == call.args[2]
ArgAllowed == call.args[3]

\* a record checked against a rule set of plain rules, none of which names a
\* custom bundle, without an allowlist
PlainCall ==
    /\ ValidateReturned
    /\ ArgData.t = "object"
    /\ ArgRules.t = "object"
    /\ ArgAllowed = Undef
    /\ \A i \in 1..Len(ArgRules.props) :
        /\ ArgRules.props[i].v.t = "object"
        /\ ~HasOwn(ArgRules.props[i].v, "custom")

Recognized(rule, j) == ToLowerCase(rule.props[j].k) \in rulesFunctions

\* the outcome of member j of a rule on a value, taken on its own
MemberOutcome(rule, key, value, j) ==
    Dispatch(ToLowerCase(rule.props[j].k), rule.props[j].v, key, value)

MemberPasses(rule, key, value, j) ==
    LET c == MemberOutcome(rule, key, value, j)
    IN  ~c.thrown /\ c.val.t = "object" /\ Get(c.val, "validate") = Bool(TRUE)

\* member j fails the value with a text of its own
MemberFails(rule, key, value, j) ==
    LET c == MemberOutcome(rule, key, value, j)
    IN  /\ ~c.thrown
        /\ c.val.t = "object"
        /\ Get(c.val, "validate") = Bool(FALSE)
        /\ (HasOwn(c.val, "message") \/ HasOwn(c.val, "msg"))

NoRuleViolated ==
    \A i \in 1..Len(ArgData.props) :
        LET key == ArgData.props[i].k
            rule == Get(ArgRules, key)
        IN  HasOwn(ArgRules, key) =>
                \A j \in 1..Len(rule.props) :
                    Recognized(rule, j) => MemberPasses(rule, key, ArgData.props[i].v, j)

RequiredPresent ==
    \A i \in 1..Len(ArgRules.props) :
        Truthy(Get(ArgRules.props[i].v, "required")) => HasOwn(ArgData, ArgRules.props[i].k)

\* C1: a record that violates no rule and holds every required key validates
\* to {validate: true, message: "Ok"}, also when the rule set has
\* non-required keys the record lacks and when rules carry required/message
\* members
C1_ValidRecordIsOk ==
    (PlainCall /\ NoRuleViolated /\ RequiredPresent) => ret = Normal(OutcomeOk)

\* the text the first failing member of a rule gives a value: the member's
\* own message, or the rule's override of it
FirstFailureText(rule, key, value) ==
    LET j == CHOOSE j \in 1..Len(rule.props) :
                /\ Recognized(rule, j) /\ MemberFails(rule, key, value, j)
                /\ \A h \in 1..(j - 1) :
                      ~(Recognized(rule, h) /\ MemberFails(rule, key, value, h))
        o == OverrideMessage(rule, rule.props[j].k, key, value,
                             MemberOutcome(rule, key, value, j).val).val
    IN  IF HasOwn(o, "message") THEN Get(o, "message") ELSE Get(o, "msg")

FieldViolates(i) ==
    LET key == ArgData.props[i].k
        rule == Get(ArgRules, key)
    IN  /\ HasOwn(ArgRules, key)
        /\ \E j \in 1..Len(rule.props) :
              Recognized(rule, j) /\ MemberFails(rule, key, ArgData.props[i].v, j)

\* C2: when the first two fields of the record each violate their own rule,
\* the outcome is a failure whose message is the first field's
C2_FirstFailureWins ==
    (PlainCall /\ Len(ArgData.props) >= 2 /\ FieldViolates(1) /\ FieldViolates(2)) =>
        /\ ret.val.t = "object"
        /\ Get(ret.val, "validate") = Bool(FALSE)
        /\ Get(ret.val, "message") =
              FirstFailureText(Get(ArgRules, ArgData.props[1].k),
                               ArgData.props[1].k, ArgData.props[1].v)

\* the rule-set keys marked required, in rule-set order
RECURSIVE RequiredKeys(_, _)
RequiredKeys(rules, i) ==
    IF i > Len(rules.props) THEN <<>>
    ELSE (IF Truthy(Get(rules.props[i].v, "required")) THEN <<rules.props[i].k>> ELSE <<>>)
         \o RequiredKeys(rules, i + 1)

\* C3: when the record holds none of the rule set's keys and two or more of
\* them are required, the outcome is a failure naming the first required key
C3_FirstMissingRequired ==
    (/\ PlainCall
     /\ \A i \in 1..Len(ArgData.props) : ~HasOwn(ArgRules, ArgData.props[i].k)
     /\ Len(RequiredKeys(ArgRules, 1)) >= 2) =>
        /\ ret.val.t = "object"
        /\ Get(ret.val, "validate") = Bool(FALSE)
        /\ Get(ret.val, "message") =
              RequiredPass(ArgRules, <<RequiredKeys(ArgRules, 1)[1]>>, 1, "Ok").val

\* the positions of the record's keys that a non-empty allowlist lacks
Disallowed ==
    {i \in 1..Len(ArgData.props) : ~\E h \in 1..Len(ArgAllowed.props) :
            StrictEq(ArgAllowed.props[h].v, Str(ArgData.props[i].k))}

AllowlistCall ==
    /\ ValidateReturned
    /\ ArgData.t = "object"
    /\ ArgRules.t = "object"
    /\ IsArray(ArgAllowed)
    /\ Len(ArgAllowed.props) > 0
    /\ Disallowed # {}

\* C4 as stated: a record with a field outside the allowlist gets the
\* allowlist failure of such a field, whatever the other fields' rules give
C4_AllowlistAlwaysWins ==
    AllowlistCall =>
        \E i \in Disallowed : ret = Normal(AllowlistFailure(ArgData.props[i].k))

FirstDisallowed == CHOOSE i \in Disallowed : \A j \in Disallowed : i <= j

\* the call ended at field k or before it, pre being the call on the fields
\* before k alone
EndsAtFirstDisallowed(k, pre) ==
    /\ ~ret.thrown
    /\ Get(ret.val, "validate") = Bool(FALSE)
    /\ ret = IF pre.inLoop THEN pre.comp
             ELSE Normal(AllowlistFailure(ArgData.props[k].k))
    /\ customValidation = pre.registry

\* C4 amended: a record with a field outside the allowlist always fails; the
\* outcome is the allowlist failure of the first such field, unless a field
\* iterated before it already ended the call, and then it is that field's
\* outcome
C4_AllowlistFirstFailure ==
    AllowlistCall =>
        EndsAtFirstDisallowed(FirstDisallowed,
            validate(Obj(SubSeq(ArgData.props, 1, FirstDisallowed - 1)),
                     ArgRules, ArgAllowed, call.registry))

\* the second field is outside the allowlist and has a rule it violates, the
\* first field passes its rule, and the allowlist failure is returned
C4_Witness ==
    /\ AllowlistCall
    /\ Len(ArgData.props) = 2
    /\ Disallowed = {2}
    /\ HasOwn(ArgRules, ArgData.props[1].k)
    /\ FieldViolates(2)
    /\ ret = Normal(AllowlistFailure(ArgData.props[2].k))

\* C5: a validate call leaves the registry as it was loaded, and returns
\* what a first call with the same arguments returns
C5_RegistryUnchanged ==
    ValidateReturned =>
        /\ customValidation = LoadedRegistry
        /\ ret = validate(ArgData, ArgRules, ArgAllowed, LoadedRegistry).comp

HasMessage(o) == o.t = "object" /\ TypeOf(Get(o, "message")) = "string"

\* C6: a failure has no message only when the rule definition is malformed:
\* a value outside a well-formed list fails with a message, at the validator
\* and through validate, and a number checked against a range with a numeric
\* bound is never a configuration error
C6_MessageUnlessMalformed ==
    /\ (/\ PrimitiveReturned("valList")
        /\ IsArray(call.args[1])
        /\ ~\E i \in 1..Len(call.args[1].props) :
                StrictEq(call.args[3], call.args[1].props[i].v)) =>
            (~ret.thrown /\ Get(ret.val, "validate") = Bool(FALSE) /\ HasMessage(ret.val))
    /\ (/\ PrimitiveReturned("valRange")
        /\ call.args[3].t = "number"
        /\ call.args[1].t = "object"
        /\ \/ Get(call.args[1], "min").t = "number"
           \/ Get(call.args[1], "max").t = "number") =>
            (~ret.thrown /\ (Get(ret.val, "validate") = Bool(FALSE) => HasMessage(ret.val)))
    /\ (/\ PlainCall
        /\ Get(ret.val, "validate") = Bool(FALSE)) => HasMessage(ret.val)

NotAMapping(v) == v.t \in {"undefined", "null", "string", "number"}

\* C7: a record or rule set that is missing or no mapping yields an outcome
\* object whose flag is false, and no exception
C7_BadArgumentsFail ==
    (ValidateReturned /\ (NotAMapping(ArgData) \/ NotAMapping(ArgRules))) =>
        /\ ~ret.thrown
        /\ ret.val.t = "object"
        /\ Get(ret.val, "validate") = Bool(FALSE)

\* a range call on a number with numeric bounds configured out of order
SwappedRangeCall ==
    /\ PrimitiveReturned("valRange")
    /\ call.args[1].t = "object"
    /\ Get(call.args[1], "min").t = "number"
    /\ Get(call.args[1], "max").t = "number"
    /\ Get(call.args[1], "min").n > Get(call.args[1], "max").n
    /\ call.args[3].t = "number"

\* C8: with numeric bounds a < b configured as {min: b, max: a}, a number v
\* passes exactly when a <= v <= b, as it does under {min: a, max: b}, and a
\* failure quotes the configured min (b) below the range and the configured
\* max (a) above it
C8_RangeSwapTransparent ==
    SwappedRangeCall =>
        LET b == Get(call.args[1], "min").n
            a == Get(call.args[1], "max").n
            v == call.args[3].n
            straight == valRange(RangeObj(Num(a), Num(b)), "a", call.args[3])
        IN  /\ ~ret.thrown
            /\ Get(ret.val, "validate") = Bool(a <= v /\ v <= b)
            /\ Get(ret.val, "validate") = Get(straight.val, "validate")
            /\ v < a => Get(ret.val, "message") =
                  Str("O valor de a necessita ser maior ou igual a " \o ToString(b))
            /\ v > b => Get(ret.val, "message") =
                  Str("O valor de a necessita ser menor ou igual a " \o ToString(a))

\* out-of-order bounds, a value inside them passes
C8_Witness ==
    /\ SwappedRangeCall
    /\ call.args[3].n > Get(call.args[1], "max").n
    /\ call.args[3].n < Get(call.args[1], "min").n
    /\ ret = Normal(OutcomeOk)

\* a configuration of the kind the validator is documented to take
WellFormedConfig(fn, rulesConfig) ==
    CASE fn = "valDataType" -> rulesConfig.t = "string"
      [] fn = "valList" -> IsArray(rulesConfig)
      [] fn = "valLength" -> rulesConfig.t = "object"
      [] fn = "valRange" -> rulesConfig.t = "object"
      [] fn = "valRegex" -> rulesConfig.t = "regexp"
      [] OTHER -> FALSE

\* C9: a primitive validator, given a configuration of its kind and a value
\* of any kind, never throws and returns an outcome with a boolean flag; the
\* type check "array" passes an array
C9_PrimitivesReturnOutcome ==
    (pc = "returned" /\ WellFormedConfig(call.fn, call.args[1])) =>
        /\ ~ret.thrown
        /\ ret.val.t = "object"
        /\ Get(ret.val, "validate").t = "boolean"
        /\ (/\ call.fn = "valDataType"
            /\ call.args[1] = Str("array")
            /\ IsArray(call.args[3])) => Get(ret.val, "validate") = Bool(TRUE)

\* C10: when every key of the rule set is in the record and no rule has a
\* recognized member, the record passes
C10_UnrecognizedMembersPass ==
    (/\ PlainCall
     /\ \A i \in 1..Len(ArgRules.props) :
          /\ HasOwn(ArgData, ArgRules.props[i].k)
          /\ \A j \in 1..Len(ArgRules.props[i].v.props) :
                ~Recognized(ArgRules.props[i].v, j)) =>
        ret = Normal(OutcomeOk)

====
